---- MODULE Spec2Model ----
(***************************************************************************)
(* Royal-Mail automation: the webhook receiver (src/server.js and its      *)
(* copies in src/unnamed/part_001 and src/jobs/daily-pdf/index.js) and the *)
(* pack-sheet job (src/jobs/daily-pdf/index.js).                           *)
(*                                                                         *)
(* Webhook receiver: every `await` of a handler is a scheduling point, so  *)
(* a handler is a sequence of atomic steps which interleave freely with    *)
(* the steps of the other requests in flight.  A step is taken when its    *)
(* statement executes at the database or at the notification provider;    *)
(* the synchronous code before and after it belongs to the same step.     *)
(* Database statements are atomic and are taken to complete; the outbound  *)
(* notification may succeed, answer with a non-2xx status, or throw.       *)
(***************************************************************************)
EXTENDS Integers, Sequences, FiniteSets, TLC

\* ------------------------------------------------------------------ bounds
MaxDelivered == 2
MaxNums == 2

\* ------------------------------------------------------------ value pools
NULL == "NULL"

TNs == {"T1", "T2"}

\* the three copies of the receiver in the repository
Variants == {"server", "part_001", "daily_pdf"}

\* fulfillment payloads: order id, e-mail (possibly absent) and carrier
Payloads ==
  { [order_id |-> "o1", email |-> "a@x", tracking_company |-> NULL],
    [order_id |-> "o2", email |-> "",    tracking_company |-> "DPD"] }

\* request bodies of the delivered callback: tracking_number may be missing,
\* blank or padded with white space; status comes in any letter case
RawTracking ==
  { [present |-> FALSE, pad |-> FALSE, core |-> ""] } \cup
  { [present |-> TRUE, pad |-> p, core |-> c] : p \in BOOLEAN, c \in {""} \cup TNs }
RawStatus == {NULL, "delivered", "DELIVERED", "in_transit"}

DeliveredIds == 1..MaxDelivered
\* slots of fulfillment requests in flight
FulfillIds == {"f1", "f2"}

\* ------------------------------------------------------------- variables
\* the webhook receiver
VARIABLES
  variant,     \* which copy of the receiver is deployed
  shipments,   \* the shipments table: a set of rows
  dreq,        \* delivered-callback requests in flight, by slot
  freq,        \* fulfillment requests in flight, by slot
  sent,        \* notification events accepted by the provider, per tracking number
  updates,     \* UPDATE statements executed by the delivered handler, per tracking number
  resp         \* the response to the request received last (pending until written)

wvars == <<variant, shipments, dreq, freq, sent, updates, resp>>

\* the pack-sheet job
VARIABLES
  env,           \* configuration and the world: order source, batch document, label size
  jpc,           \* where run() is
  orders,        \* the orders after the prefix filter
  perOrder,      \* results of the per-order fetches, by position
  out,           \* labels sliced from the batch document so far
  batchPages,    \* page count of the loaded batch document
  labels,        \* what fetchLabelsForOrders returned
  labelSource,   \* which return statement of fetchLabelsForOrders was taken
  batchFetches,  \* fetches of the batch URL
  merged,        \* the pages of the output document
  emails,        \* documents sent, as page counts
  subjects,      \* the subject lines of the e-mails sent
  console,       \* the lines written with console.log
  exitCode,      \* process.exitCode
  failedAt       \* the step whose exception reached the catch of run()

jvars == <<env, jpc, orders, perOrder, out, batchPages, labels, labelSource,
           batchFetches, merged, emails, subjects, console, exitCode, failedAt>>

\* the tabular report job
VARIABLES
  tenv,          \* the world of the report job: what the order source holds
  tpc,           \* where run() is
  tOrders,       \* the orders fetched
  tPdf,          \* what generateOrderPDF returned
  tEmails,       \* the attachments sent
  tExitCode,     \* process.exitCode
  tFailedAt      \* the step whose exception reached the catch of run()

tvars == <<tenv, tpc, tOrders, tPdf, tEmails, tExitCode, tFailedAt>>
vars == <<wvars, jvars, tvars>>

\* ------------------------------------------------------- string helpers
\* String(x || "") without trim(): the white space stays
TrimMissing(raw) ==
  IF ~raw.present THEN ""
  ELSE IF ~raw.pad THEN raw.core
  ELSE IF raw.core = "" THEN " "
  ELSE IF raw.core = "T1" THEN " T1 " ELSE " T2 "

\* String(x || "").trim()
Trim(raw) == IF ~raw.present THEN "" ELSE raw.core

\* String(x || "").toLowerCase()
ToLowerCase(raw) ==
  IF raw = NULL THEN ""
  ELSE IF raw = "DELIVERED" THEN "delivered"
  ELSE IF raw = "DPD" THEN "dpd"
  ELSE raw

\* String(f?.tracking_company || "royalmail").toLowerCase()
CarrierOf(f) ==
  ToLowerCase(IF f.tracking_company = NULL THEN "royalmail" ELSE f.tracking_company)

\* --------------------------------------------------------- the database
RowsFor(rows, tn) == { r \in rows : r.tracking_number = tn }

\* INSERT ... ON CONFLICT (tracking_number) DO NOTHING
UpsertDoNothing(rows, f, tn) ==
  IF RowsFor(rows, tn) = {}
  THEN rows \cup { [ id |-> Cardinality(rows) + 1,
                     order_id |-> f.order_id,
                     email |-> f.email,
                     tracking_number |-> tn,
                     carrier |-> CarrierOf(f),
                     status |-> "in_transit",
                     delivered_at |-> NULL,
                     processed_delivered |-> FALSE ] }
  ELSE rows

\* an upsert that writes the inserted values over the whole row on conflict
UpsertResetting(rows, f, tn) ==
  IF RowsFor(rows, tn) = {}
  THEN rows \cup { [ id |-> Cardinality(rows) + 1,
                     order_id |-> f.order_id,
                     email |-> f.email,
                     tracking_number |-> tn,
                     carrier |-> CarrierOf(f),
                     status |-> "in_transit",
                     delivered_at |-> NULL,
                     processed_delivered |-> FALSE ] }
  ELSE { IF r.tracking_number = tn
         THEN [r EXCEPT !.order_id = f.order_id,
                        !.email = f.email,
                        !.carrier = CarrierOf(f),
                        !.status = "in_transit",
                        !.processed_delivered = FALSE]
         ELSE r : r \in rows }

\* INSERT ... ON CONFLICT (tracking_number) DO UPDATE SET order_id, email, carrier.
\* ids come from a sequence: unique and never reused (modelled without gaps).
Upsert(rows, f, tn) ==
  IF RowsFor(rows, tn) = {}
  THEN rows \cup { [ id |-> Cardinality(rows) + 1,
                     order_id |-> f.order_id,
                     email |-> f.email,
                     tracking_number |-> tn,
                     carrier |-> CarrierOf(f),
                     status |-> "in_transit",
                     delivered_at |-> NULL,
                     processed_delivered |-> FALSE ] }
  ELSE { IF r.tracking_number = tn
         THEN [r EXCEPT !.order_id = f.order_id,
                        !.email = f.email,
                        !.carrier = CarrierOf(f)]
         ELSE r : r \in rows }

\* an UPDATE that sets the flag alone
MarkProcessedOnly(rows, id) ==
  { IF r.id = id
    THEN [r EXCEPT !.processed_delivered = TRUE]
    ELSE r : r \in rows }

\* UPDATE shipments SET status='delivered', delivered_at=now(),
\*   processed_delivered=true WHERE id=$1
MarkDelivered(rows, id) ==
  { IF r.id = id
    THEN [r EXCEPT !.status = "delivered",
                   !.delivered_at = "now",
                   !.processed_delivered = TRUE]
    ELSE r : r \in rows }

\* a receiver that does not consult the flag
NeedsNotificationAlways(row) == TRUE

\* if (!row.processed_delivered) { notify; update } else skip
NeedsNotification(row) == ~row.processed_delivered

\* sendKlaviyoDelivered of src/server.js refuses a missing e-mail before any
\* request is made; the other copies send whatever the row holds
RefusedBeforeSend(v, row) == v = "server" /\ row.email = ""

\* a handler that swallows the failure and answers as on success
FailureStatusOk(v, outcome) == 200

\* status of the response when the notification fails
\*   server:    throw -> catch -> 502
\*   part_001:  throw -> catch -> 500
\*   daily_pdf: !r.ok -> 502; fetch throws -> catch -> 500
FailureStatus(v, outcome) ==
  IF v = "server" THEN 502
  ELSE IF v = "part_001" THEN 500
  ELSE IF outcome = "notok" THEN 502 ELSE 500

\* ------------------------------------------------------------- requests
Idle == [pc |-> "idle"]
NoResp == [route |-> "none", code |-> 0, tn |-> "", stage |-> "", saved |-> 0]
Pending(route) == [NoResp EXCEPT !.route = route]

\* res.status(code) of POST /royalmail-webhook; stage names the statement
\* after which the handler answered
DeliveredResp(code, tn, stage) ==
  [route |-> "royalmail-webhook", code |-> code, tn |-> tn, stage |-> stage,
   saved |-> 0]

\* res.json({ ok: true, saved }) of POST /shopify-fulfillment
FulfillResp(saved) ==
  [route |-> "shopify-fulfillment", code |-> 200, tn |-> "", stage |-> "loop",
   saved |-> saved]

\* nums.filter(Boolean)
RECURSIVE FilterBoolean(_)
FilterBoolean(nums) ==
  IF nums = <<>> THEN <<>>
  ELSE IF Head(nums) = "" THEN FilterBoolean(Tail(nums))
  ELSE <<Head(nums)>> \o FilterBoolean(Tail(nums))

\* tracking_numbers of a fulfillment body: an array over the numbers tns
\* (with empty entries), or anything else
NumsPool(tns) ==
  { [isArray |-> FALSE, items |-> <<>>] } \cup
  { [isArray |-> TRUE, items |-> s] :
      s \in UNION { [1..n -> {""} \cup tns] : n \in 0..MaxNums } }

\* Array.isArray(f?.tracking_numbers) ? f.tracking_numbers : []
NumsOf(tracking_numbers) ==
  IF tracking_numbers.isArray THEN tracking_numbers.items ELSE <<>>

WInit ==
  /\ variant \in Variants
  /\ shipments = {}
  /\ dreq = [h \in DeliveredIds |-> Idle]
  /\ freq = [f \in FulfillIds |-> Idle]
  /\ sent = [t \in TNs |-> 0]
  /\ updates = [t \in TNs |-> 0]
  /\ resp = NoResp

\* POST /shopify-fulfillment: parse the body; the loop over
\* nums.filter(Boolean) awaits one upsert per tracking number
FulfillReceive(f, body, nums) ==
  /\ freq[f].pc = "idle"
  /\ freq' = [freq EXCEPT ![f] =
       [pc |-> "loop", body |-> body,
        todo |-> FilterBoolean(NumsOf(nums)),
        saved |-> 0]]
  /\ resp' = Pending("shopify-fulfillment")
  /\ UNCHANGED <<jvars, tvars>>
  /\ UNCHANGED <<variant, shipments, dreq, sent, updates>>

FulfillUpsert(f) ==
  /\ freq[f].pc = "loop"
  /\ freq[f].todo # <<>>
  /\ shipments' = Upsert(shipments, freq[f].body, Head(freq[f].todo))
  /\ freq' = [freq EXCEPT ![f].todo = Tail(@), ![f].saved = @ + 1]
  /\ UNCHANGED <<jvars, tvars>>
  /\ UNCHANGED <<variant, dreq, sent, updates, resp>>

FulfillRespond(f) ==
  /\ freq[f].pc = "loop"
  /\ freq[f].todo = <<>>
  /\ resp' = FulfillResp(freq[f].saved)
  /\ freq' = [freq EXCEPT ![f] = Idle]
  /\ UNCHANGED <<jvars, tvars>>
  /\ UNCHANGED <<variant, shipments, dreq, sent, updates>>

\* POST /royalmail-webhook: validation, the SELECT and the checks on its result
DeliveredReceive(h, rawStatus, rawTn) ==
  /\ dreq[h].pc = "idle"
  /\ LET status == ToLowerCase(rawStatus)
         tn == Trim(rawTn)
         rows == RowsFor(shipments, tn)
     IN IF tn = ""
        THEN /\ resp' = DeliveredResp(400, tn, "validate")
             /\ UNCHANGED dreq
        ELSE IF status # "delivered"
        THEN /\ resp' = DeliveredResp(204, tn, "validate")
             /\ UNCHANGED dreq
        ELSE IF rows = {}
        THEN /\ resp' = DeliveredResp(204, tn, "select")
             /\ UNCHANGED dreq
        ELSE \E row \in rows :
             IF NeedsNotification(row)
             THEN /\ dreq' = [dreq EXCEPT ![h] =
                       [pc |-> "notify", tn |-> tn, id |-> row.id,
                        order_id |-> row.order_id, email |-> row.email]]
                  /\ resp' = Pending("royalmail-webhook")
             ELSE /\ resp' = DeliveredResp(200, tn, "select")
                  /\ UNCHANGED dreq
  /\ UNCHANGED <<jvars, tvars>>
  /\ UNCHANGED <<variant, shipments, freq, sent, updates>>

\* the outbound notification: await sendKlaviyoDelivered(...) / fetch(...)
DeliveredNotify(h, outcome) ==
  /\ dreq[h].pc = "notify"
  /\ LET r == dreq[h] IN
     IF RefusedBeforeSend(variant, r)
     THEN /\ resp' = DeliveredResp(FailureStatus(variant, "throw"), r.tn, "notify")
          /\ dreq' = [dreq EXCEPT ![h] = Idle]
          /\ UNCHANGED sent
     ELSE IF outcome = "ok"
     THEN /\ sent' = [sent EXCEPT ![r.tn] = @ + 1]
          /\ dreq' = [dreq EXCEPT ![h].pc = "update"]
          /\ UNCHANGED resp
     ELSE /\ resp' = DeliveredResp(FailureStatus(variant, outcome), r.tn, "notify")
          /\ dreq' = [dreq EXCEPT ![h] = Idle]
          /\ UNCHANGED sent
  /\ UNCHANGED <<jvars, tvars>>
  /\ UNCHANGED <<variant, shipments, freq, updates>>

\* UPDATE ... WHERE id=$1, then res.json({ ok: true })
DeliveredUpdate(h) ==
  /\ dreq[h].pc = "update"
  /\ LET r == dreq[h] IN
     /\ shipments' = MarkDelivered(shipments, r.id)
     /\ updates' = [updates EXCEPT ![r.tn] = @ + 1]
     /\ resp' = DeliveredResp(200, r.tn, "update")
     /\ dreq' = [dreq EXCEPT ![h] = Idle]
  /\ UNCHANGED <<jvars, tvars>>
  /\ UNCHANGED <<variant, freq, sent>>

Fulfillment(slots, tns) ==
  \E f \in slots :
    \/ \E body \in Payloads, nums \in NumsPool(tns) : FulfillReceive(f, body, nums)
    \/ FulfillUpsert(f)
    \/ FulfillRespond(f)

Delivered ==
  \E h \in DeliveredIds :
    \/ \E s \in RawStatus, t \in RawTracking : DeliveredReceive(h, s, t)
    \/ \E outcome \in {"ok", "notok", "throw"} : DeliveredNotify(h, outcome)
    \/ DeliveredUpdate(h)

\* delivered callbacks handled in the given slots
DeliveredIn(slots) ==
  \E h \in slots :
    \/ \E s \in RawStatus, t \in RawTracking : DeliveredReceive(h, s, t)
    \/ \E outcome \in {"ok", "notok", "throw"} : DeliveredNotify(h, outcome)
    \/ DeliveredUpdate(h)

\* callbacks handled one after the other: a request is received only when
\* no other delivered callback is in flight
DeliveredSequential ==
  \E h \in DeliveredIds :
    \/ /\ \A g \in DeliveredIds : dreq[g].pc = "idle"
       /\ \E s \in RawStatus, t \in RawTracking : DeliveredReceive(h, s, t)
    \/ \E outcome \in {"ok", "notok", "throw"} : DeliveredNotify(h, outcome)
    \/ DeliveredUpdate(h)


(***************************************************************************)
(* The pack-sheet job (src/jobs/daily-pdf/index.js): fetch the orders,     *)
(* filter them by reference prefix, resolve one label per order, compose   *)
(* one page per order and send the document.                               *)
(*                                                                         *)
(* A JavaScript string is a sequence of characters, `undefined` is the     *)
(* value UNDEFINED.  A document is known by what it is: the label fetched  *)
(* for the order at a position, a page of the batch document, or none.     *)
(* Lengths are PDF points; a quotient is kept exact as a pair <<n, d>>.    *)
(***************************************************************************)

\* ------------------------------------------------------------------ bounds
MaxOrders == 3
MaxPages == 3
MaxDim == 6
MaxItems == 22
MaxFetched == 3

\* ---------------------------------------------------- program constants
PageWidth == 595
PageHeight == 842
margin == 36
availHeight == 360
PanelHeight == 380
BottomInset == 10
DefaultRotate == 90
\* the items table of the despatch note, in points.  pdfkit sets Helvetica at
\* size 10 on lines 11.56 high and moveDown(0.2) adds 2.31; the cursor is at
\* 194 or lower when the first item is drawn (heading, address block with the
\* country line alone, order number and date, table header).  The values are
\* rounded so that no text is placed lower in the model than on the page.
NameColumn == 393
LineHeight == 11
ItemGap == 2
ItemsTopY == 194

UNDEFINED == <<"#undefined">>
UndefinedText == <<"u", "n", "d", "e", "f", "i", "n", "e", "d">>
Truthy(s) == s # <<>> /\ s # UNDEFINED

\* orders as the order source returns them
RawOrders ==
  { [orderReference |-> r[1], orderNumber |-> r[2], labelPdfUrl |-> u,
     items |-> <<>>] :
      r \in { <<UNDEFINED, <<"V", "1">> >>,
              << <<>>, <<"J", "2">> >>,
              <<UNDEFINED, UNDEFINED>> },
      u \in BOOLEAN }

\* orders whose reference and number differ, for the prefix filter
PrefixOrders ==
  { [orderReference |-> r[1], orderNumber |-> r[2], labelPdfUrl |-> r[3],
     items |-> <<>>] :
      r \in { <<UNDEFINED, <<"V", "1">>, TRUE>>,
              << <<>>, <<"J", "2">>, FALSE>>,
              << <<"V", "3">>, <<"J", "2">>, FALSE>>,
              <<UNDEFINED, UNDEFINED, FALSE>> } }

\* an item is known by the width of its name as printed at size 10 (0: no
\* name); an order has up to MaxItems items of one kind
NameWidths == {0, 100, 394}
ItemLists == { [k \in 1..n |-> [name |-> w]] : n \in 0..MaxItems, w \in NameWidths }
ItemOrders ==
  { [orderReference |-> UNDEFINED, orderNumber |-> <<"V", "1">>,
     labelPdfUrl |-> u, items |-> its] : u \in BOOLEAN, its \in ItemLists }

\* ORDER_REF_PREFIX as configured: unset, or a text with or without white
\* space around it
NoPrefix == [present |-> FALSE, pad |-> FALSE, core |-> <<>>]
PrefixConfigs ==
  { NoPrefix } \cup
  { [present |-> TRUE, pad |-> p, core |-> c] :
      p \in BOOLEAN, c \in { <<>>, <<"V">>, <<"J", "2">> } }

SeqsUpTo(S, n) == UNION { [1..k -> S] : k \in 0..n }

NoLabel == [src |-> "none", idx |-> 0]
DirectLabel(i) == [src |-> "direct", idx |-> i]
BatchPage(i) == [src |-> "batch", idx |-> i]
NoDraw == [drawn |-> FALSE]


\* --------------------------------------------------------- exact quotients
Q(n, d) == <<n, d>>
QInt(n) == <<n, 1>>
QLe(a, b) == a[1] * b[2] <= b[1] * a[2]
QEq(a, b) == a[1] * b[2] = b[1] * a[2]
QAdd(a, b) == <<a[1] * b[2] + b[1] * a[2], a[2] * b[2]>>
QSub(a, b) == <<a[1] * b[2] - b[1] * a[2], a[2] * b[2]>>
QMul(a, b) == <<a[1] * b[1], a[2] * b[2]>>
QMin(a, b) == IF QLe(a, b) THEN a ELSE b

Min(a, b) == IF a <= b THEN a ELSE b
MaxOf(S) == CHOOSE x \in S : \A y \in S : y <= x

\* ------------------------------------------------------------- the orders
\* fetchOrdersFromClickAndDrop: orderReference: o.orderReference ?? o.orderNumber
\* items: (o.items || []).map(it => ({ ..., name: it.name || it.title || "" }))
NormalizeItem(it) == [name |-> it.name]

Normalize(o) ==
  [orderReference |-> IF o.orderReference = UNDEFINED THEN o.orderNumber
                      ELSE o.orderReference,
   orderNumber |-> o.orderNumber,
   labelPdfUrl |-> o.labelPdfUrl,
   items |-> [k \in 1..Len(o.items) |-> NormalizeItem(o.items[k])]]

\* o.orderReference || o.orderNumber
RefOf(o) == IF Truthy(o.orderReference) THEN o.orderReference ELSE o.orderNumber

\* ((o.orderReference || o.orderNumber || "") + "").startsWith(prefix)
StartsWith(s, prefix) ==
  /\ Len(prefix) <= Len(s)
  /\ SubSeq(s, 1, Len(prefix)) = prefix
\* a filter that looks at the order number alone
HasPrefixByNumber(o, prefix) ==
  StartsWith(IF Truthy(o.orderNumber) THEN o.orderNumber ELSE <<>>, prefix)

HasPrefix(o, prefix) ==
  StartsWith(IF Truthy(RefOf(o)) THEN RefOf(o) ELSE <<>>, prefix)

RECURSIVE FilterByPrefix(_, _)
FilterByPrefix(all, prefix) ==
  IF all = <<>> THEN <<>>
  ELSE IF HasPrefix(Head(all), prefix)
       THEN <<Head(all)>> \o FilterByPrefix(Tail(all), prefix)
       ELSE FilterByPrefix(Tail(all), prefix)

\* const prefix = (ORDER_REF_PREFIX || "").trim()
PrefixOf(raw) == IF ~raw.present THEN <<>> ELSE raw.core

\* const orders = prefix ? allOrders.filter(...) : allOrders
FilterOrders(all, prefix) ==
  IF prefix # <<>> THEN FilterByPrefix(all, prefix) ELSE all

\* ------------------------------------------------------ the label resolver
Pending1 == [st |-> "pending", ref |-> <<>>, buffer |-> NoLabel]
Null1 == [st |-> "null", ref |-> <<>>, buffer |-> NoLabel]
Found1(ref, buf) == [st |-> "found", ref |-> ref, buffer |-> buf]

LabelRecord(ref, buf) == [ref |-> ref, buffer |-> buf]

\* the synchronous part of orders.map(async o => ...): no URL gives null at once
StartPerOrder(os) ==
  [i \in 1..Len(os) |-> IF os[i].labelPdfUrl THEN Pending1 ELSE Null1]

\* a per-order fetch without its catch: the failure is the result
PerOrderResultUncaught(o, i, ok) ==
  IF ok THEN Found1(RefOf(o), DirectLabel(i))
  ELSE [st |-> "rejected", ref |-> <<>>, buffer |-> NoLabel]

\* try { buf = await fetchBuffer(url); return { ref, buffer: buf } } catch { return null }
PerOrderResult(o, i, ok) ==
  IF ok THEN Found1(RefOf(o), DirectLabel(i)) ELSE Null1

\* the completeness test inverted; the test with some() in place of every()
HavePerOrderInverted(po) == ~(\A i \in 1..Len(po) : po[i].st = "found")
HavePerOrderSome(po) == \E i \in 1..Len(po) : po[i].st = "found"

\* perOrder.every(x => x)
HavePerOrder(po) == \A i \in 1..Len(po) : po[i].st = "found"

\* return perOrder
PerOrderLabels(po) == [i \in 1..Len(po) |-> LabelRecord(po[i].ref, po[i].buffer)]

\* orders.map(o => ({ ref: o.orderReference || o.orderNumber, buffer: null }))
NullLabels(os) == [i \in 1..Len(os) |-> LabelRecord(RefOf(os[i]), NoLabel)]

\* Math.min(pdf.getPageCount(), orders.length)
SliceLimit(pageCount, orderCount) == Min(pageCount, orderCount)

\* out.push({ ref: orders[i].orderReference || orders[i].orderNumber, buffer: page i })
\* (i is the 0-based loop index)
SlicedLabel(os, i) == LabelRecord(RefOf(os[i + 1]), BatchPage(i))

\* a batch fallback without its catch
OnBatchFailureRethrow(os) == [caught |-> FALSE, labels |-> NullLabels(os)]

\* catch { /* no labels available */ } and the fall-through to the final return
OnBatchFailure(os) == [caught |-> TRUE, labels |-> NullLabels(os)]

\* ---------------------------------------------------------- the compositor
\* new Map(labels.map(l => [String(l.ref || ""), l.buffer]))
LabelKey(ref) == IF Truthy(ref) THEN ref ELSE <<>>

\* String(o.orderReference || o.orderNumber)
OrderKey(o) == IF RefOf(o) = UNDEFINED THEN UndefinedText ELSE RefOf(o)

\* labelMap.get(key): a later entry with the same key replaces an earlier one
LabelMapGet(ls, key) ==
  LET hits == { i \in 1..Len(ls) : LabelKey(ls[i].ref) = key }
  IN IF hits = {} THEN NoLabel ELSE ls[MaxOf(hits)].buffer

\* if (labelBuf)
HasLabel(buf) == buf.src # "none"

availWidth == PageWidth - margin * 2

\* const rotated = (rotate % 180) !== 0
Rotated(rotate) == rotate % 180 # 0

\* if (rotated) [width, height] = [height, width]
FitWidth(w, h, rotate) == IF Rotated(rotate) THEN h ELSE w
FitHeight(w, h, rotate) == IF Rotated(rotate) THEN w ELSE h

\* the larger of the two ratios instead of the smaller
ScaleMax(w, h, rotate) ==
  IF QLe(Q(availWidth, FitWidth(w, h, rotate)), Q(availHeight, FitHeight(w, h, rotate)))
  THEN Q(availHeight, FitHeight(w, h, rotate))
  ELSE Q(availWidth, FitWidth(w, h, rotate))

\* Math.min(availWidth / width, availHeight / height)
Scale(w, h, rotate) ==
  QMin(Q(availWidth, FitWidth(w, h, rotate)), Q(availHeight, FitHeight(w, h, rotate)))

DrawWidth(w, h, rotate) == QMul(QInt(FitWidth(w, h, rotate)), Scale(w, h, rotate))
DrawHeight(w, h, rotate) == QMul(QInt(FitHeight(w, h, rotate)), Scale(w, h, rotate))

\* const x = margin + (availWidth - drawWidth) / 2
PlaceX(w, h, rotate) ==
  QAdd(QInt(margin),
       QMul(QSub(QInt(availWidth), DrawWidth(w, h, rotate)), Q(1, 2)))

\* const y = margin + (pageHeight - margin - drawHeight) - 10
PlaceY(w, h, rotate) ==
  QSub(QAdd(QInt(margin),
            QSub(QInt(PageHeight - margin), DrawHeight(w, h, rotate))),
       QInt(BottomInset))

\* page.drawPage(labelPage, { x, y, xScale: scale, yScale: scale, rotate })
DrawPage(w, h, rotate) ==
  [drawn |-> TRUE, width |-> w, height |-> h,
   x |-> PlaceX(w, h, rotate), y |-> PlaceY(w, h, rotate),
   xScale |-> Scale(w, h, rotate), yScale |-> Scale(w, h, rotate),
   rotate |-> rotate]

\* The rectangle the embedded page covers on the output page.  pdf-lib places
\* the lower-left corner of the embedded page at (x, y), measured from the
\* lower-left corner of the page with y growing upwards, scales it and turns
\* it counter-clockwise about (x, y).
LabelBox(d) ==
  LET bw == QMul(QInt(IF Rotated(d.rotate) THEN d.height ELSE d.width), d.xScale)
      bh == QMul(QInt(IF Rotated(d.rotate) THEN d.width ELSE d.height), d.yScale)
      goesLeft == d.rotate \in {90, 180}
      goesDown == d.rotate \in {180, 270}
  IN [left   |-> IF goesLeft THEN QSub(d.x, bw) ELSE d.x,
      right  |-> IF goesLeft THEN d.x ELSE QAdd(d.x, bw),
      bottom |-> IF goesDown THEN QSub(d.y, bh) ELSE d.y,
      top    |-> IF goesDown THEN d.y ELSE QAdd(d.y, bh)]

\* renderPackSheetTopToBuffer draws the divider at labelTopY = 842 - 380,
\* measured from the top of the page as pdfkit does; in the coordinates of
\* the merged page (from the bottom) that is PageHeight - labelTopY
labelTopY == PageHeight - PanelHeight
DividerFromBottom == PageHeight - labelTopY

\* ------------------------------------------------- the despatch-note renderer
\* doc.text(it.name || "\u2014", { width: 393 }): no ellipsis, lineBreak or height
\* option is passed, so pdfkit wraps a text wider than the column onto as
\* many lines as it needs (at least width / column, rounded up)
ShownWidth(it) == IF it.name = 0 THEN 6 ELSE it.name
WrappedLines(w) == IF w <= NameColumn THEN 1 ELSE (w + NameColumn - 1) \div NameColumn

\* the name cell of one item as drawn
ItemText(it) ==
  [lines |-> WrappedLines(ShownWidth(it)), ellipsis |-> FALSE]

\* for (const it of order.items) { const y = doc.y; ...; doc.moveDown(0.2) }
\* y is measured from the top of the page.  Text that does not fit above the
\* bottom margin goes to a following page, which the compositor never copies.
RECURSIVE ItemRows(_, _, _)
ItemRows(items, k, y) ==
  IF k > Len(items) THEN <<>>
  ELSE LET t == ItemText(items[k])
           room == IF y < PageHeight - margin
                   THEN (PageHeight - margin - y) \div LineHeight ELSE 0
       IN << [item |-> k, y |-> y, lines |-> t.lines, ellipsis |-> t.ellipsis,
              onPage |-> Min(t.lines, room),
              bottom |-> y + Min(t.lines, room) * LineHeight] >>
          \o ItemRows(items, k + 1, y + t.lines * LineHeight + ItemGap)

\* renderPackSheetTopToBuffer(order): the item rows and the divider
RenderPackSheetTop(order) ==
  [rows |-> ItemRows(order.items, 1, ItemsTopY), divider |-> labelTopY]

\* an embedding step without its catch
OnEmbedFailureRethrow == [caught |-> FALSE]

\* catch (e) { console.warn("Embed label failed for", ...) }
OnEmbedFailure == [caught |-> TRUE]

\* one iteration of for (const o of orders) in buildPackSheetsPDF
ComposedPage(os, ls, k, embedded, e) ==
  LET buf == LabelMapGet(ls, OrderKey(os[k]))
  IN [order |-> k,
      top |-> RenderPackSheetTop(os[k]),
      label |-> IF HasLabel(buf) /\ embedded THEN buf ELSE NoLabel,
      draw |-> IF HasLabel(buf) /\ embedded
               THEN DrawPage(e.labelW, e.labelH, e.rotate)
               ELSE NoDraw]

\* ------------------------------------------------------------------ run()
WIdle ==
  /\ variant = "server"
  /\ shipments = {}
  /\ dreq = [h \in DeliveredIds |-> Idle]
  /\ freq = [f \in FulfillIds |-> Idle]
  /\ sent = [t \in TNs |-> 0]
  /\ updates = [t \in TNs |-> 0]
  /\ resp = NoResp

JIdle ==
  /\ env = [srcOrders |-> <<>>, batchUrl |-> FALSE, prefix |-> NoPrefix,
            rotate |-> DefaultRotate, labelW |-> 4, labelH |-> 6]
  /\ jpc = "start"
  /\ orders = <<>>
  /\ perOrder = <<>>
  /\ out = <<>>
  /\ batchPages = 0
  /\ labels = <<>>
  /\ labelSource = "unset"
  /\ batchFetches = 0
  /\ merged = <<>>
  /\ emails = <<>>
  /\ subjects = <<>>
  /\ console = <<>>
  /\ exitCode = 0
  /\ failedAt = "none"

JInitFrom(pool, maxOrders, batchUrls, prefixes, rotations, sizes) ==
  /\ env \in [srcOrders : SeqsUpTo(pool, maxOrders),
              batchUrl : batchUrls,
              prefix : prefixes,
              rotate : rotations,
              labelW : sizes,
              labelH : sizes]
  /\ jpc = "start"
  /\ orders = <<>>
  /\ perOrder = <<>>
  /\ out = <<>>
  /\ batchPages = 0
  /\ labels = <<>>
  /\ labelSource = "unset"
  /\ batchFetches = 0
  /\ merged = <<>>
  /\ emails = <<>>
  /\ subjects = <<>>
  /\ console = <<>>
  /\ exitCode = 0
  /\ failedAt = "none"

JInit(maxOrders, prefixes, rotations, sizes) ==
  JInitFrom(RawOrders, maxOrders, BOOLEAN, prefixes, rotations, sizes)

\* catch (err) { console.error(...); process.exitCode = 1 }
Fail(step) ==
  /\ jpc' = "failed"
  /\ exitCode' = 1
  /\ failedAt' = step

\* 1) orders, 2) prefix filter, the empty-run branch, and the start of
\* fetchLabelsForOrders up to its first await
FetchOrders(ok) ==
  /\ jpc = "start"
  /\ IF ~ok
     THEN /\ Fail("orders")
          /\ UNCHANGED <<orders, perOrder, merged, labelSource>>
     ELSE LET all == [i \in 1..Len(env.srcOrders) |-> Normalize(env.srcOrders[i])]
              kept == FilterOrders(all, PrefixOf(env.prefix))
          IN /\ orders' = kept
             /\ UNCHANGED <<exitCode, failedAt>>
             /\ IF kept = <<>>
                THEN /\ merged' = <<>>
                     /\ jpc' = "email"
                     /\ labelSource' = "skipped"
                     /\ UNCHANGED perOrder
                ELSE /\ perOrder' = StartPerOrder(kept)
                     /\ jpc' = "perOrder"
                     /\ UNCHANGED <<merged, labelSource>>
  /\ UNCHANGED <<wvars, tvars>>
  /\ UNCHANGED <<env, out, batchPages, labels, batchFetches, emails, subjects, console>>

\* one per-order fetch settles; the fetches are in flight together
PerOrderFetch(i, ok) ==
  /\ jpc = "perOrder"
  /\ i \in 1..Len(perOrder)
  /\ perOrder[i].st = "pending"
  /\ perOrder' = [perOrder EXCEPT ![i] = PerOrderResult(orders[i], i, ok)]
  /\ UNCHANGED <<wvars, tvars>>
  /\ UNCHANGED <<env, jpc, orders, out, batchPages, labels, labelSource,
                 batchFetches, merged, emails, subjects, console, exitCode,
                 failedAt>>

\* Promise.all resolves: return perOrder, or go for the batch, or all null
PerOrderSettled ==
  /\ jpc = "perOrder"
  /\ \A i \in 1..Len(perOrder) : perOrder[i].st # "pending"
  /\ IF HavePerOrder(perOrder)
     THEN /\ labels' = PerOrderLabels(perOrder)
          /\ labelSource' = "perOrder"
          /\ jpc' = "compose"
     ELSE IF env.batchUrl
     THEN /\ jpc' = "batch"
          /\ UNCHANGED <<labels, labelSource>>
     ELSE /\ labels' = NullLabels(orders)
          /\ labelSource' = "none"
          /\ jpc' = "compose"
  /\ UNCHANGED <<wvars, tvars>>
  /\ UNCHANGED <<env, orders, perOrder, out, batchPages, batchFetches, merged,
                 emails, subjects, console, exitCode, failedAt>>

\* an exception inside the try block of the batch fallback
BatchFailed ==
  IF OnBatchFailure(orders).caught
  THEN /\ labels' = OnBatchFailure(orders).labels
       /\ labelSource' = "none"
       /\ jpc' = "compose"
       /\ UNCHANGED <<exitCode, failedAt>>
  ELSE /\ Fail("labels")
       /\ UNCHANGED <<labels, labelSource>>

\* await fetchBuffer(url); await PDFLib.load(batchBuf)
BatchFetch(outcome, pageCount) ==
  /\ jpc = "batch"
  /\ batchFetches' = batchFetches + 1
  /\ IF outcome = "ok"
     THEN /\ batchPages' = pageCount
          /\ out' = <<>>
          /\ jpc' = "slice"
          /\ UNCHANGED <<labels, labelSource, exitCode, failedAt>>
     ELSE /\ BatchFailed
          /\ UNCHANGED <<batchPages, out>>
  /\ UNCHANGED <<wvars, tvars>>
  /\ UNCHANGED <<env, orders, perOrder, merged, emails, subjects, console>>

\* one iteration of the page-splitting loop
SliceStep(ok) ==
  /\ jpc = "slice"
  /\ Len(out) < SliceLimit(batchPages, Len(orders))
  /\ IF ok
     THEN /\ out' = Append(out, SlicedLabel(orders, Len(out)))
          /\ UNCHANGED <<jpc, labels, labelSource, exitCode, failedAt>>
     ELSE /\ BatchFailed
          /\ UNCHANGED out
  /\ UNCHANGED <<wvars, tvars>>
  /\ UNCHANGED <<env, orders, perOrder, batchPages, batchFetches, merged, emails,
                 subjects, console>>

\* return out
SliceReturn ==
  /\ jpc = "slice"
  /\ ~(Len(out) < SliceLimit(batchPages, Len(orders)))
  /\ labels' = out
  /\ labelSource' = "batch"
  /\ jpc' = "compose"
  /\ UNCHANGED <<wvars, tvars>>
  /\ UNCHANGED <<env, orders, perOrder, out, batchPages, batchFetches, merged,
                 emails, subjects, console, exitCode, failedAt>>

\* one iteration of buildPackSheetsPDF: render the despatch note, append it,
\* embed the label if there is one.  Rendering is outside the try block.
ComposeStep(outcome) ==
  /\ jpc = "compose"
  /\ Len(merged) < Len(orders)
  /\ LET k == Len(merged) + 1
         buf == LabelMapGet(labels, OrderKey(orders[k]))
     IN
     IF outcome = "renderFail"
     THEN /\ Fail("render")
          /\ UNCHANGED merged
     ELSE IF outcome = "embedFail" /\ HasLabel(buf) /\ ~OnEmbedFailure.caught
     THEN /\ Fail("embed")
          /\ merged' = Append(merged, ComposedPage(orders, labels, k, FALSE, env))
     ELSE /\ merged' = Append(merged,
                 ComposedPage(orders, labels, k, outcome = "ok", env))
          /\ UNCHANGED <<jpc, exitCode, failedAt>>
  /\ UNCHANGED <<wvars, tvars>>
  /\ UNCHANGED <<env, orders, perOrder, out, batchPages, labels, labelSource,
                 batchFetches, emails, subjects, console>>

\* return Buffer.from(await merged.save())
ComposeReturn ==
  /\ jpc = "compose"
  /\ Len(merged) = Len(orders)
  /\ jpc' = "email"
  /\ UNCHANGED <<wvars, tvars>>
  /\ UNCHANGED <<env, orders, perOrder, out, batchPages, labels, labelSource,
                 batchFetches, merged, emails, subjects, console, exitCode,
                 failedAt>>

\* What a line of output states: the numbers, the instants and the filter
\* interpolated into it.
NoneText == <<"(", "n", "o", "n", "e", ")">>

\* `${BRAND_NAME} \u2014 Pack Sheets \u2014 ${nowUK.toFormat(...)}`, with " (No orders)"
\* appended on an empty run
Subject(empty) ==
  [text |-> IF empty THEN "Pack Sheets (No orders)" ELSE "Pack Sheets",
   counts |-> {}, times |-> {"nowUK"}, filters |-> {}]

\* console.log("No orders; sent empty pack sheet.")
ConsoleEmpty ==
  [text |-> "No orders; sent empty pack sheet.",
   counts |-> {}, times |-> {}, filters |-> {}]

\* console.log(`Sent ${orders.length} pack sheets. Window ${sinceUK.toISO()} ->
\*   ${nowUK.toISO()} Prefix=${prefix || "(none)"}`)
ConsoleSent(os, prefix) ==
  [text |-> "Sent pack sheets. Window Prefix",
   counts |-> {Len(os)}, times |-> {"sinceUK", "nowUK"},
   filters |-> {IF prefix # <<>> THEN prefix ELSE NoneText}]

\* await sendEmailViaGraph({ subject, attachments }) and the console.log
\* after it; on an empty run the subject and the line differ
SendEmail(ok) ==
  /\ jpc = "email"
  /\ IF ok
     THEN /\ emails' = Append(emails, Len(merged))
          /\ subjects' = Append(subjects, Subject(labelSource = "skipped"))
          /\ console' = Append(console,
                IF labelSource = "skipped" THEN ConsoleEmpty
                ELSE ConsoleSent(orders, PrefixOf(env.prefix)))
          /\ jpc' = "done"
          /\ UNCHANGED <<exitCode, failedAt>>
     ELSE /\ Fail("email")
          /\ UNCHANGED <<emails, subjects, console>>
  /\ UNCHANGED <<wvars, tvars>>
  /\ UNCHANGED <<env, orders, perOrder, out, batchPages, labels, labelSource,
                 batchFetches, merged>>

(***************************************************************************)
(* The tabular report job (src/unnamed/part_000): fetch the orders, draw    *)
(* one document and send it.                                                *)
(*                                                                         *)
(* pdfkit hands the bytes of a document to the "data" listener as the       *)
(* stream flows and emits "end" after the last of them.  A buffer built     *)
(* from the chunks before "end" holds all, some or none of the document,    *)
(* whichever the runtime had delivered by then.                             *)
(***************************************************************************)
\* orders of the report, as the order source returns them
TabOrders ==
  { [line1 |-> a, city |-> b, postcode |-> c] :
      a \in {"", "2 High St"}, b \in {"", "London"}, c \in {"", "NW1"} }

Collected == {"all", "some", "none"}

NoPdf == [kind |-> "none", rows |-> 0, cells |-> <<>>, collected |-> "none"]

\* if (!orders.length) { ...text("No orders found in this window."); doc.end();
\*   return Buffer.concat(chunks) }: the chunks as they are at that moment
MessagePdf(collected) ==
  [kind |-> "message", rows |-> 0, cells |-> <<>>, collected |-> collected]

\* A string of the address cell is a sequence of tokens: a part of the
\* address (a text without ", ") is one token, "," and " " are the characters
\* of the template.
\* `${o.address?.line1 || ""}, ${o.address?.city || ""}, ${o.address?.postcode || ""}`
Part(p) == IF p = "" THEN <<>> ELSE <<p>>

AddrTemplate(o) ==
  Part(o.line1) \o <<",", " ">> \o Part(o.city) \o <<",", " ">> \o Part(o.postcode)

\* .replace(/(^, |, ,)/g, ""): from left to right, a ", " at the very start
\* and every ", ," are dropped; the search resumes after each match
RECURSIVE ReplaceFrom(_, _)
ReplaceFrom(s, i) ==
  IF i > Len(s) THEN <<>>
  ELSE IF i = 1 /\ Len(s) >= 2 /\ s[1] = "," /\ s[2] = " "
  THEN ReplaceFrom(s, 3)
  ELSE IF i + 2 <= Len(s) /\ s[i] = "," /\ s[i + 1] = " " /\ s[i + 2] = ","
  THEN ReplaceFrom(s, i + 3)
  ELSE <<s[i]>> \o ReplaceFrom(s, i + 1)

\* const addr = `...`.replace(/(^, |, ,)/g, "")
Addr(o) == ReplaceFrom(AddrTemplate(o), 1)

\* doc.end(); return new Promise(resolve => doc.on("end", () => resolve(...)))
TablePdf(os) ==
  [kind |-> "table", rows |-> Len(os), cells |-> [i \in 1..Len(os) |-> Addr(os[i])],
   collected |-> "all"]

TIdle ==
  /\ tenv = [srcOrders |-> <<>>]
  /\ tpc = "start"
  /\ tOrders = <<>>
  /\ tPdf = NoPdf
  /\ tEmails = <<>>
  /\ tExitCode = 0
  /\ tFailedAt = "none"

TInit(maxRows) ==
  /\ tenv \in [srcOrders : SeqsUpTo(TabOrders, maxRows)]
  /\ tpc = "start"
  /\ tOrders = <<>>
  /\ tPdf = NoPdf
  /\ tEmails = <<>>
  /\ tExitCode = 0
  /\ tFailedAt = "none"

\* a report job whose catch only logs
TFailLogOnly(step) ==
  /\ tpc' = "failed"
  /\ tExitCode' = tExitCode
  /\ tFailedAt' = step

\* catch (err) { console.error("FAILED:", err); process.exitCode = 1 }
TFail(step) ==
  /\ tpc' = "failed"
  /\ tExitCode' = 1
  /\ tFailedAt' = step

\* const orders = await fetchOrdersFromClickAndDrop(sinceISO_utc)
TFetchOrders(ok) ==
  /\ tpc = "start"
  /\ IF ok
     THEN /\ tOrders' = tenv.srcOrders
          /\ tpc' = "generate"
          /\ UNCHANGED <<tExitCode, tFailedAt>>
     ELSE /\ TFail("orders")
          /\ UNCHANGED tOrders
  /\ UNCHANGED <<wvars, jvars>>
  /\ UNCHANGED <<tenv, tPdf, tEmails>>

\* const pdf = await generateOrderPDF(orders, { sinceUK, nowUK })
TGenerate(outcome, collected) ==
  /\ tpc = "generate"
  /\ IF outcome = "throw"
     THEN /\ TFail("generate")
          /\ UNCHANGED tPdf
     ELSE /\ tPdf' = IF tOrders = <<>> THEN MessagePdf(collected)
                     ELSE TablePdf(tOrders)
          /\ tpc' = "email"
          /\ UNCHANGED <<tExitCode, tFailedAt>>
  /\ UNCHANGED <<wvars, jvars>>
  /\ UNCHANGED <<tenv, tOrders, tEmails>>

\* await sendEmail({ pdfBuffer: pdf, subject })
TSendEmail(ok) ==
  /\ tpc = "email"
  /\ IF ok
     THEN /\ tEmails' = Append(tEmails, tPdf)
          /\ tpc' = "done"
          /\ UNCHANGED <<tExitCode, tFailedAt>>
     ELSE /\ TFail("email")
          /\ UNCHANGED tEmails
  /\ UNCHANGED <<wvars, jvars>>
  /\ UNCHANGED <<tenv, tOrders, tPdf>>

TNext ==
  \/ \E ok \in BOOLEAN : TFetchOrders(ok)
  \/ \E outcome \in {"ok", "throw"}, c \in Collected : TGenerate(outcome, c)
  \/ \E ok \in BOOLEAN : TSendEmail(ok)

\* a run of the pack-sheet job with RM_LABELS_PDF_URL unset
JNextNoBatch ==
  \/ \E ok \in BOOLEAN : FetchOrders(ok)
  \/ \E i \in 1..MaxFetched + 1, ok \in BOOLEAN : PerOrderFetch(i, ok)
  \/ PerOrderSettled
  \/ \E outcome \in {"ok", "embedFail", "renderFail"} : ComposeStep(outcome)
  \/ ComposeReturn
  \/ \E ok \in BOOLEAN : SendEmail(ok)

JNext ==
  \/ \E ok \in BOOLEAN : FetchOrders(ok)
  \/ \E i \in 1..MaxOrders + 1, ok \in BOOLEAN : PerOrderFetch(i, ok)
  \/ PerOrderSettled
  \/ \E outcome \in {"ok", "fetchFail", "loadFail"}, p \in 0..MaxPages :
       BatchFetch(outcome, p)
  \/ \E ok \in BOOLEAN : SliceStep(ok)
  \/ SliceReturn
  \/ \E outcome \in {"ok", "embedFail", "renderFail"} : ComposeStep(outcome)
  \/ ComposeReturn
  \/ \E ok \in BOOLEAN : SendEmail(ok)

\* ---------------------------------------------------------- specifications
\* the receiver under concurrent delivered callbacks; shipments are
\* registered for T1, callbacks arrive for T1 and T2
Init == WInit /\ JIdle /\ TIdle
Next == Fulfillment({"f1"}, {"T1"}) \/ Delivered
Spec == Init /\ [][Next]_vars

\* the receiver with delivered callbacks arriving one after the other
SeqNext == Fulfillment({"f1"}, TNs) \/ DeliveredSequential
SpecSeq == Init /\ [][SeqNext]_vars

\* one run of the pack-sheet job, default rotation, no prefix filter
JobInit == WIdle /\ JInit(MaxOrders, {NoPrefix}, {DefaultRotate}, {4}) /\ TIdle
SpecJob == JobInit /\ [][JNext]_vars

\* one run of the pack-sheet job on at most one order, over label sizes and
\* rotations
FitInit == WIdle /\ JInit(1, {NoPrefix}, {0, 90, 180, 270}, 1..MaxDim) /\ TIdle
SpecFit == FitInit /\ [][JNext]_vars

\* one run of the pack-sheet job under each prefix configuration, without a
\* batch document
PrefixInit ==
  /\ WIdle
  /\ JInitFrom(PrefixOrders, MaxFetched, {FALSE}, PrefixConfigs, {DefaultRotate}, {4})
  /\ TIdle
SpecPrefix == PrefixInit /\ [][JNextNoBatch]_vars

\* one run of the pack-sheet job on one order with up to MaxItems items
RenderInit ==
  /\ WIdle
  /\ JInitFrom(ItemOrders, 1, BOOLEAN, {NoPrefix}, {DefaultRotate}, {4})
  /\ TIdle
SpecRender == RenderInit /\ [][JNext]_vars

\* one run of each job, on at most one order
RunsInit ==
  /\ WIdle
  /\ JInitFrom(RawOrders, 1, BOOLEAN, {NoPrefix, [present |-> TRUE, pad |-> FALSE, core |-> <<"J">>]},
               {DefaultRotate}, {4})
  /\ TInit(1)
RunsNext == JNext \/ TNext
SpecRuns == RunsInit /\ [][RunsNext]_vars

\* the receiver with one delivered callback in flight at a time; shipments
\* are registered for T1, callbacks arrive for T1 and T2
OneNext == Fulfillment({"f1"}, {"T1"}) \/ DeliveredIn({1})
SpecOne == Init /\ [][OneNext]_vars

\* the receiver under concurrent fulfillment events for both tracking numbers
UpsertInit == WIdle /\ JIdle /\ TIdle
UpsertNext == Fulfillment(FulfillIds, TNs)
SpecUpsert == UpsertInit /\ [][UpsertNext]_vars

\* ------------------------------------------------------------------ claims
AllFound == \A i \in 1..Len(perOrder) : perOrder[i].st = "found"
ResolverReturned == labelSource \in {"perOrder", "batch", "none"}
Drawn == { k \in 1..Len(merged) : merged[k].draw.drawn }

\* C1: under concurrent or duplicate delivered callbacks for one tracking
\* number, at most one notification event is sent for it
C1_AtMostOneNotification == \A t \in TNs : sent[t] <= 1

\* C2: delivered callbacks handled one after the other send one notification
\* per tracking number and execute one UPDATE; once the notification has been
\* sent, every later delivered callback for that number answers 200, and a
\* callback answered straight after the SELECT found the row processed
C2_SequentialIdempotent ==
  /\ \A t \in TNs : sent[t] <= 1 /\ updates[t] <= 1
  /\ (resp.route = "royalmail-webhook" /\ resp.code # 0 /\ resp.stage # "validate"
        /\ sent[resp.tn] = 1)
       => resp.code = 200
  /\ (resp.route = "royalmail-webhook" /\ resp.code = 200 /\ resp.stage = "select")
       => /\ sent[resp.tn] = 1
          /\ updates[resp.tn] = 1
          /\ \A r \in RowsFor(shipments, resp.tn) : r.processed_delivered

\* a second callback was answered 200 without notification or UPDATE
C2_Witness ==
  /\ resp.route = "royalmail-webhook"
  /\ resp.code = 200
  /\ resp.stage = "select"
  /\ sent[resp.tn] = 1
  /\ updates[resp.tn] = 1

\* C3: when every order has a direct label URL and every one of those fetches
\* succeeded, the batch URL is never fetched, configured or not
C3_BatchNeverConsulted ==
  (/\ jpc # "start"
   /\ \A i \in 1..Len(orders) : orders[i].labelPdfUrl
   /\ AllFound)
    => /\ batchFetches = 0
       /\ jpc \notin {"batch", "slice"}
       /\ labelSource # "batch"

C3_Witness ==
  /\ jpc = "done"
  /\ Len(orders) >= 2
  /\ \A i \in 1..Len(orders) : orders[i].labelPdfUrl
  /\ AllFound
  /\ env.batchUrl
  /\ batchFetches = 0

\* C4: fetchLabelsForOrders returns one LabelRecord per order, in input
\* order, record i carrying the reference of order i
C4_OneRecordPerOrder ==
  ResolverReturned =>
    /\ Len(labels) = Len(orders)
    /\ \A i \in 1..Len(labels) : labels[i].ref = RefOf(orders[i])

\* C5: in the batch fallback the batch is fetched once, order i gets batch
\* page i for i < min(P, N) and every order at a position >= P gets a null
\* label
C5_BatchMapping ==
  labelSource = "batch" =>
    /\ batchFetches = 1
    /\ \A i \in 1..Len(orders) :
         /\ i \in DOMAIN labels
         /\ labels[i].buffer =
              (IF i <= batchPages THEN BatchPage(i - 1) ELSE NoLabel)

C7_TotalFallback ==
  /\ failedAt # "labels"
  /\ (ResolverReturned /\ ~AllFound /\ (~env.batchUrl \/ labelSource # "batch"))
       => labelSource = "none"
  /\ labelSource = "none" =>
       /\ Len(labels) = Len(orders)
       /\ \A i \in 1..Len(labels) :
            labels[i].buffer = NoLabel /\ labels[i].ref = RefOf(orders[i])
       /\ jpc \in {"compose", "email", "done"} \/ failedAt \in {"render", "email"}

\* slicing failed after a page had been cut, and the document was sent
C7_Witness ==
  /\ labelSource = "none"
  /\ batchFetches = 1
  /\ Len(out) >= 1
  /\ Len(orders) >= 2
  /\ jpc = "done"
  /\ emails = <<Len(orders)>>

C9_InsidePanel ==
  \A k \in Drawn :
    LET d == merged[k].draw
        sw == IF d.rotate \in {90, 270} THEN d.height ELSE d.width
        dw == QMul(QInt(sw), d.xScale)
        box == LabelBox(d)
    IN /\ QEq(d.x, QAdd(QInt(margin), QMul(QSub(QInt(availWidth), dw), Q(1, 2))))
       /\ QLe(QInt(margin), box.left)
       /\ QLe(box.right, QInt(PageWidth - margin))
       /\ QLe(QInt(0), box.bottom)
       /\ QLe(box.top, QInt(DividerFromBottom))

\* C10: one page per order, appended in input order; an order whose label is
\* null or fails to embed still gets its page, and an embedding failure does
\* not end the run
C10_OnePagePerOrder ==
  /\ failedAt # "embed"
  /\ Len(merged) <= Len(orders)
  /\ \A k \in 1..Len(merged) : merged[k].order = k
  /\ (jpc \in {"email", "done"} \/ failedAt = "email") => Len(merged) = Len(orders)

\* a finished run with a labelled page, a page whose label failed to embed
\* and a page whose label was null
C10_Witness ==
  /\ jpc = "done"
  /\ Len(merged) = 3
  /\ \E k \in 1..3 : merged[k].draw.drawn
  /\ \E k \in 1..3 :
       /\ ~merged[k].draw.drawn
       /\ HasLabel(LabelMapGet(labels, OrderKey(orders[k])))
  /\ \E k \in 1..3 : ~HasLabel(LabelMapGet(labels, OrderKey(orders[k])))

\* the reference of a fetched order: its orderReference, else its orderNumber
FetchedRef(o) ==
  IF o.orderReference \notin {UNDEFINED, <<>>} THEN o.orderReference
  ELSE IF o.orderNumber \notin {UNDEFINED, <<>>} THEN o.orderNumber
  ELSE <<>>

\* the prefix in force: the configured text without the white space around it
ActivePrefix == IF env.prefix.present THEN env.prefix.core ELSE <<>>

\* the positions of the fetched orders that the filter is to keep
KeptPositions ==
  IF ActivePrefix = <<>> THEN 1..Len(env.srcOrders)
  ELSE { j \in 1..Len(env.srcOrders) :
           /\ Len(ActivePrefix) <= Len(FetchedRef(env.srcOrders[j]))
           /\ \A c \in 1..Len(ActivePrefix) :
                FetchedRef(env.srcOrders[j])[c] = ActivePrefix[c] }

\* the i-th kept position, counted from 1
NthKept(i) ==
  CHOOSE j \in KeptPositions : Cardinality({ k \in KeptPositions : k < j }) = i - 1

\* C11: with a prefix configured, the orders given to label resolution and
\* composition are the fetched orders whose reference starts with it, in
\* their original order; with no prefix every fetched order is kept
C11_PrefixFilter ==
  (jpc # "start" /\ failedAt # "orders") =>
    /\ Len(orders) = Cardinality(KeptPositions)
    /\ \A i \in 1..Len(orders) :
         /\ orders[i].orderNumber = env.srcOrders[NthKept(i)].orderNumber
         /\ orders[i].labelPdfUrl = env.srcOrders[NthKept(i)].labelPdfUrl
         /\ FetchedRef(orders[i]) = FetchedRef(env.srcOrders[NthKept(i)])
    /\ jpc = "perOrder" => Len(perOrder) = Len(orders)
    /\ ResolverReturned => Len(labels) = Len(orders)
    /\ jpc \in {"email", "done"} => Len(merged) = Len(orders)
    /\ \A k \in 1..Len(merged) : merged[k].order = k

\* references V1, J2, V3 under the prefix " V ": orders 1 and 3 are rendered
C11_Witness ==
  /\ jpc = "done"
  /\ Len(env.srcOrders) = 3
  /\ env.prefix = [present |-> TRUE, pad |-> TRUE, core |-> <<"V">>]
  /\ Len(orders) = 2
  /\ orders[1].orderNumber = <<"V", "1">>
  /\ orders[2].orderReference = <<"V", "3">>
  /\ Len(merged) = 2

\* C12: a run on zero orders still sends exactly one e-mail carrying one
\* document and reports no failure: the pack-sheet job a document of zero
\* pages, the report job the complete "no orders" page
C12_EmptyRun ==
  /\ (jpc # "start" /\ failedAt # "orders" /\ orders = <<>>) =>
       /\ failedAt \in {"none", "email"}
       /\ jpc = "done" => (emails = <<0>> /\ exitCode = 0)
  /\ (tpc = "done" /\ tOrders = <<>>) =>
       /\ tEmails = <<MessagePdf("all")>>
       /\ tExitCode = 0

\* C13: a delivered callback with a missing or blank tracking number is
\* answered 400; one whose status is not "delivered" is answered 204; one for
\* a tracking number without a shipment row is answered 204; in the three
\* cases no notification is sent, no row is created or modified and the
\* handler is finished
C13_ValidationPaths ==
  [][\A h \in {1}, st \in RawStatus, t \in RawTracking :
       (freq' = freq /\ DeliveredReceive(h, st, t)) =>
         LET blank == ~t.present \/ t.core = ""
             delivered == st \in {"delivered", "DELIVERED"}
             known == \E r \in shipments : r.tracking_number = t.core
         IN /\ blank => resp'.code = 400
            /\ (~blank /\ ~delivered) => resp'.code = 204
            /\ (~blank /\ delivered /\ ~known) => resp'.code = 204
            /\ (blank \/ ~delivered \/ ~known) =>
                 /\ sent' = sent
                 /\ shipments' = shipments
                 /\ updates' = updates
                 /\ dreq' = dreq
    ]_vars

\* a delivered callback for T2, which has no row, was answered 204 while the
\* row of T1 stayed as it was
C13_Witness ==
  /\ resp = DeliveredResp(204, "T2", "select")
  /\ \E r \in shipments : r.tracking_number = "T1" /\ ~r.processed_delivered
  /\ sent["T2"] = 0

\* C14: when the notification fails the handler sends nothing further,
\* answers with a 5xx status and runs no UPDATE; the row stays unprocessed
\* and not delivered, and a later delivered callback for the same tracking
\* number goes to the notification again
C14_NotificationFailure ==
  /\ [][\A h \in {1}, outcome \in {"ok", "notok", "throw"} :
          (/\ DeliveredNotify(h, outcome)
           /\ outcome # "ok" \/ (variant = "server" /\ dreq[h].email = "")) =>
            /\ resp'.code \in 500..599
            /\ resp'.tn = dreq[h].tn
            /\ sent' = sent
            /\ shipments' = shipments
            /\ updates' = updates
            /\ dreq'[h] = Idle
       ]_vars
  /\ []((resp.route = "royalmail-webhook" /\ resp.stage = "notify") =>
          /\ RowsFor(shipments, resp.tn) # {}
          /\ \A r \in RowsFor(shipments, resp.tn) :
               /\ ~r.processed_delivered
               /\ r.status # "delivered"
               /\ r.delivered_at = NULL)
  /\ [][\A h \in {1}, st \in {"delivered", "DELIVERED"}, t \in RawTracking :
          (/\ resp.route = "royalmail-webhook" /\ resp.stage = "notify"
           /\ t.present /\ t.core = resp.tn
           /\ DeliveredReceive(h, st, t)) =>
            dreq'[h].pc = "notify"
       ]_vars

\* the notification failed and the callback was answered with a 5xx status
C14_Witness ==
  /\ resp.route = "royalmail-webhook"
  /\ resp.stage = "notify"
  /\ resp.code \in {500, 502}
  /\ sent[resp.tn] = 0
  /\ updates[resp.tn] = 0
  /\ \E r \in RowsFor(shipments, resp.tn) : r.email # ""

\* C15: under concurrent and repeated fulfillment events the table never
\* holds two rows with one tracking number; every non-empty tracking number
\* received is applied; applying an event leaves exactly one row for its
\* tracking number, carrying the order id, e-mail and carrier of that event,
\* and creates or alters no other row
C15_UpsertUniqueness ==
  /\ [](\A r1 \in shipments, r2 \in shipments :
          (r1.tracking_number = r2.tracking_number \/ r1.id = r2.id) => r1 = r2)
  /\ [](\A r \in shipments : r.tracking_number # "")
  /\ [][\A f \in FulfillIds :
          (freq[f].pc = "idle" /\ freq'[f].pc = "loop") =>
            /\ shipments' = shipments
            /\ \A nums \in NumsPool(TNs) :
                 FulfillReceive(f, freq'[f].body, nums) =>
                   LET xs == IF nums.isArray THEN nums.items ELSE <<>>
                       todo == freq'[f].todo
                   IN { todo[i] : i \in 1..Len(todo) } =
                        { xs[i] : i \in 1..Len(xs) } \ {""}
       ]_vars
  /\ [][\A f \in FulfillIds :
          FulfillUpsert(f) =>
            LET tn == Head(freq[f].todo)
                b == freq[f].body
            IN /\ freq'[f].todo = Tail(freq[f].todo)
               /\ Cardinality(RowsFor(shipments', tn)) = 1
               /\ \A r \in RowsFor(shipments', tn) :
                    /\ r.order_id = b.order_id
                    /\ r.email = b.email
                    /\ r.carrier = (IF b.tracking_company = NULL THEN "royalmail"
                                    ELSE IF b.tracking_company = "DPD" THEN "dpd"
                                    ELSE b.tracking_company)
               /\ \A r \in shipments : r.tracking_number # tn => r \in shipments'
               /\ { r.tracking_number : r \in shipments' } =
                    { r.tracking_number : r \in shipments } \cup {tn}
       ]_vars
  /\ [][\A f \in FulfillIds :
          FulfillRespond(f) => (freq[f].todo = <<>> /\ shipments' = shipments)
       ]_vars

\* two events in flight together for one tracking number, both applied: one
\* row, with the fields of the event applied last
C15_Witness ==
  /\ freq["f1"].pc = "loop" /\ freq["f2"].pc = "loop"
  /\ freq["f1"].saved = 1 /\ freq["f2"].saved = 1
  /\ freq["f1"].todo = <<>> /\ freq["f2"].todo = <<>>
  /\ freq["f1"].body # freq["f2"].body
  /\ Cardinality(shipments) = 1

\* C16: when the order-source fetch fails, or document assembly fails outside
\* the per-order try/catch, the run stops there: no label source is consulted
\* and nothing else happens afterwards, no e-mail is sent, and the exit code
\* is not zero; in both jobs
C16_FatalPath ==
  /\ [](failedAt = "orders" =>
          /\ jpc = "failed" /\ exitCode = 1
          /\ emails = <<>> /\ merged = <<>>
          /\ perOrder = <<>> /\ batchFetches = 0 /\ labelSource = "unset")
  /\ [](failedAt = "render" =>
          /\ jpc = "failed" /\ exitCode = 1
          /\ emails = <<>>)
  /\ [](tFailedAt \in {"orders", "generate"} =>
          /\ tpc = "failed" /\ tExitCode = 1
          /\ tEmails = <<>>)
  /\ [][failedAt # "none" => UNCHANGED jvars]_vars
  /\ [][tFailedAt # "none" => UNCHANGED tvars]_vars

\* assembly failed after the labels had been resolved, and the report job
\* failed to generate its document
C16_Witness ==
  /\ failedAt = "render"
  /\ ResolverReturned
  /\ exitCode = 1
  /\ emails = <<>>
  /\ tFailedAt = "generate"
  /\ tExitCode = 1

\* C17: on every despatch note each item takes exactly one line, a name
\* wider than the column is cut and marked with an ellipsis, the divider of
\* the panel is 380 from the bottom of the page, and no item text lies in the
\* panel
C17_PanelReservation ==
  \A k \in 1..Len(merged) :
    LET top == merged[k].top
        its == orders[k].items
    IN /\ top.divider = PageHeight - 380
       /\ Len(top.rows) = Len(its)
       /\ \A r \in 1..Len(top.rows) :
            /\ top.rows[r].lines = 1
            /\ top.rows[r].onPage = 1
            /\ its[r].name > NameColumn => top.rows[r].ellipsis
            /\ top.rows[r].bottom <= top.divider

\* C18: the subject and the console line of a finished run state the number
\* of orders processed, the number fetched, both bounds of the window and
\* the filter in force
C18_RunSummary ==
  jpc = "done" =>
    LET said == { subjects[i] : i \in 1..Len(subjects) } \cup
                { console[i] : i \in 1..Len(console) }
        counts == UNION { l.counts : l \in said }
        times == UNION { l.times : l \in said }
        filters == UNION { l.filters : l \in said }
    IN /\ Len(orders) \in counts
       /\ Len(env.srcOrders) \in counts
       /\ {"sinceUK", "nowUK"} \subseteq times
       /\ filters # {}

\* C19: the compositor binds to the page of the order at position i the
\* label resolved for position i, also when references repeat or are empty:
\* no page carries the label of another position and no label is drawn on
\* two pages
C19_LabelBinding ==
  ResolverReturned =>
    /\ \A k \in 1..Len(orders) :
         LabelMapGet(labels, OrderKey(orders[k])) =
           (IF k \in DOMAIN labels THEN labels[k].buffer ELSE NoLabel)
    /\ \A k \in 1..Len(merged) :
         merged[k].label \in
           {NoLabel} \cup (IF k \in DOMAIN labels THEN {labels[k].buffer} ELSE {})
    /\ \A i \in DOMAIN labels :
         HasLabel(labels[i].buffer) =>
           Cardinality({ k \in 1..Len(merged) : merged[k].label = labels[i].buffer }) <= 1

\* C20: a per-order fetch that settles sets the result at its own position
\* to its own outcome (the label of that order, or null on failure), changes
\* no other position and does not end the run, in whatever order the fetches
\* settle; a found result is always the label of the order at that position
C20_PerOrderIndependent ==
  /\ [][\A i \in 1..Len(perOrder), ok \in BOOLEAN :
          PerOrderFetch(i, ok) =>
            /\ perOrder'[i] =
                 (IF ok THEN [st |-> "found", ref |-> RefOf(orders[i]),
                              buffer |-> DirectLabel(i)]
                  ELSE [st |-> "null", ref |-> <<>>, buffer |-> NoLabel])
            /\ Len(perOrder') = Len(perOrder)
            /\ \A j \in 1..Len(perOrder) : j # i => perOrder'[j] = perOrder[j]
            /\ jpc' = "perOrder"
            /\ failedAt' = "none"
       ]_vars
  /\ [](\A i \in 1..Len(perOrder) :
          /\ perOrder[i].st \in {"pending", "found", "null"}
          /\ perOrder[i].st = "found" =>
               /\ orders[i].labelPdfUrl
               /\ perOrder[i].buffer = DirectLabel(i)
               /\ perOrder[i].ref = RefOf(orders[i]))
  /\ [](failedAt # "labels")

\* the third fetch succeeded and the second failed while the first is still
\* in flight
C20_Witness ==
  /\ jpc = "perOrder"
  /\ Len(perOrder) = 3
  /\ perOrder[1].st = "pending"
  /\ orders[2].labelPdfUrl /\ perOrder[2].st = "null"
  /\ perOrder[3].st = "found"

\* C21: what generateOrderPDF returns holds every chunk of the document, for
\* an empty order list as for a non-empty one: the buffer is built only after
\* the stream has emitted "end", so no chunk emitted later is missing from it
C21_ReturnAfterEnd ==
  tPdf.kind # "none" =>
    /\ tPdf.collected = "all"
    /\ tPdf.kind = (IF tOrders = <<>> THEN "message" ELSE "table")
    /\ tPdf.rows = Len(tOrders)

\* the present parts of an address, in order, with ", " between neighbours
RECURSIVE JoinParts(_)
JoinParts(ps) ==
  IF ps = <<>> THEN <<>>
  ELSE IF Head(ps) = "" THEN JoinParts(Tail(ps))
  ELSE IF JoinParts(Tail(ps)) = <<>> THEN <<Head(ps)>>
  ELSE <<Head(ps), ",", " ">> \o JoinParts(Tail(ps))

\* C22: the address cell of every row of the report is the present parts of
\* line1, city and postcode joined by ", ": no separator at the start, at the
\* end or doubled, whichever parts are missing
C22_AddressCell ==
  tPdf.kind = "table" =>
    \A i \in 1..Len(tOrders) :
      tPdf.cells[i] = JoinParts(<<tOrders[i].line1, tOrders[i].city, tOrders[i].postcode>>)

\* C23: a row that is processed stays processed: no step of a fulfillment
\* event or of a delivered callback removes it, clears processed_delivered,
\* changes its status away from "delivered" or clears delivered_at; and no
\* delivered callback received for a processed row goes to the notification
C23_ProcessedMonotonic ==
  /\ [][\A r \in shipments :
          r.processed_delivered =>
            \E q \in shipments' :
              /\ q.id = r.id
              /\ q.tracking_number = r.tracking_number
              /\ q.processed_delivered
              /\ q.status = "delivered"
              /\ q.delivered_at = r.delivered_at
       ]_vars
  /\ [][\A h \in DeliveredIds :
          (dreq[h].pc = "idle" /\ dreq'[h].pc = "notify") =>
            \A r \in RowsFor(shipments, dreq'[h].tn) : ~r.processed_delivered
       ]_vars

\* a fulfillment event received after the row of T1 was marked has been
\* applied to that row (no delivered callback has answered since), and the
\* row is still processed and delivered
C23_Witness ==
  /\ resp = Pending("shopify-fulfillment")
  /\ freq["f1"].pc = "loop"
  /\ freq["f1"].saved >= 1
  /\ \A h \in DeliveredIds : dreq[h].pc = "idle"
  /\ sent["T1"] = 1 /\ updates["T1"] = 1
  /\ \E r \in shipments :
       /\ r.tracking_number = "T1"
       /\ r.order_id = freq["f1"].body.order_id
       /\ r.processed_delivered
       /\ r.status = "delivered"
       /\ r.delivered_at # NULL

\* C24: in every reachable state of the receiver a processed row has status
\* "delivered" and a delivered_at, and the provider has accepted at least one
\* notification for its tracking number; the step that marks a row is taken
\* only when such a notification has already been accepted
C24_ProcessedImpliesNotified ==
  /\ [](\A r \in shipments :
          r.processed_delivered =>
            /\ r.status = "delivered"
            /\ r.delivered_at # NULL
            /\ sent[r.tracking_number] >= 1)
  /\ [][\A r \in shipments' :
          (r.processed_delivered /\
           ~\E q \in shipments : q.id = r.id /\ q.processed_delivered) =>
            /\ sent[r.tracking_number] >= 1
            /\ sent' = sent
       ]_vars

\* the row of T1 has just been marked, while another callback for T1 is
\* still waiting for the provider
C24_Witness ==
  /\ resp = DeliveredResp(200, "T1", "update")
  /\ sent["T1"] = 1 /\ updates["T1"] = 1
  /\ \E h \in DeliveredIds : dreq[h].pc = "notify" /\ dreq[h].tn = "T1"
  /\ \E r \in shipments :
       /\ r.tracking_number = "T1"
       /\ r.processed_delivered
       /\ r.status = "delivered"
       /\ r.delivered_at = "now"
====
